---------------------------- MODULE Spec2Model ----------------------------
(***************************************************************************)
(* Model of the output-log subsystem of nix-mcp (src/src/index.ts): the    *)
(* process runner execNix, the output formatter formatResult, the log      *)
(* store (logStore, logCounter, storeLog) and the retrieval tools get_log  *)
(* and list_logs of handleTool, behind the CallToolRequestSchema handler.  *)
(*                                                                         *)
(* Representation of JavaScript strings.  A character is a one-element     *)
(* TLA+ string; ESC stands for the single character U+001B.  A string is   *)
(* held as the sequence of its "\n"-separated lines, each line a sequence  *)
(* of characters other than "\n": the value s.split("\n") of the string,   *)
(* which is never empty ("".split("\n") is [""]).  Every string has        *)
(* exactly one such sequence and every non-empty sequence of "\n"-free     *)
(* lines is the split of exactly one string, so the lengths, slices,       *)
(* concatenations and joins below are computed character for character.    *)
(***************************************************************************)
EXTENDS Integers, Sequences, FiniteSets, TLC

CR == "\r"
TAB == "\t"
ESC == "ESC"

(***************************************************************************)
(* Program constants.                                                      *)
(***************************************************************************)
MAX_LOGS == 100
MAX_OUTPUT_LINES == 50
MAX_OUTPUT_CHARS == 4000

(***************************************************************************)
(* String literals of the source, as character sequences.                  *)
(***************************************************************************)
S_Warning == <<"W", "a", "r", "n", "i", "n", "g">>
S_experimental == <<"e", "x", "p", "e", "r", "i", "m", "e", "n", "t", "a", "l">>
S_EscBracket == <<ESC, "[">>
S_copyingPath == <<"c", "o", "p", "y", "i", "n", "g", " ", "p", "a", "t", "h">>
S_KiB == <<"K", "i", "B">>
S_MiB == <<"M", "i", "B">>
S_GiB == <<"G", "i", "B">>
S_MarkOpen == <<".", ".", ".", " ", "(">>
S_linesOmitted == <<" ", "l", "i", "n", "e", "s", " ", "o", "m", "i", "t", "t", "e", "d", ")", " ", ".", ".", ".">>
S_charsOmitted == <<" ", "c", "h", "a", "r", "a", "c", "t", "e", "r", "s", " ", "o", "m", "i", "t", "t", "e", "d", ")", " ", ".", ".", ".">>
S_ExitCode == <<"E", "x", "i", "t", " ", "c", "o", "d", "e", ":", " ">>
S_FullLog == <<"F", "u", "l", "l", " ", "l", "o", "g", ":", " ", "u", "s", "e", " ", "n", "i", "x", "_", "g", "e", "t", "_", "l", "o", "g", " ", "w", "i", "t", "h", " ", "i", "d", "=", "\"">>
S_Quote == <<"\"">>
S_Sep == <<" ", "|", " ">>
S_Completed == <<"C", "o", "m", "m", "a", "n", "d", " ", "c", "o", "m", "p", "l", "e", "t", "e", "d", " ", "s", "u", "c", "c", "e", "s", "s", "f", "u", "l", "l", "y">>
S_CommandNix == <<"C", "o", "m", "m", "a", "n", "d", ":", " ", "n", "i", "x", " ">>
S_Timestamp == <<"T", "i", "m", "e", "s", "t", "a", "m", "p", ":", " ">>
S_LogNotFound == <<"L", "o", "g", " ", "n", "o", "t", " ", "f", "o", "u", "n", "d", ":", " ">>
S_UseList == <<"U", "s", "e", " ", "n", "i", "x", "_", "l", "i", "s", "t", "_", "l", "o", "g", "s", " ", "t", "o", " ", "s", "e", "e", " ", "a", "v", "a", "i", "l", "a", "b", "l", "e", " ", "l", "o", "g", "s", ".">>
S_NoLogs == <<"N", "o", " ", "l", "o", "g", "s", " ", "a", "v", "a", "i", "l", "a", "b", "l", "e", ".">>
S_logDash == <<"l", "o", "g", "-">>
S_IsoDate == <<"2", "0", "2", "6", "-", "0", "1", "-", "0", "1", "T", "0", "0", ":", "0", "0", ":", "0", "0", ".">>

(***************************************************************************)
(* JavaScript string and array primitives.                                 *)
(***************************************************************************)
Min(a, b) == IF a <= b THEN a ELSE b
Max(a, b) == IF a >= b THEN a ELSE b

\* The empty string "".
EmptyStr == << <<>> >>

\* A one-line string from a sequence of characters.
Str(line) == <<line>>

\* String(n) for a non-negative integer n, as a sequence of digit characters.
DigitChar(d) == <<"0", "1", "2", "3", "4", "5", "6", "7", "8", "9">>[d + 1]

RECURSIVE Digits(_)
Digits(n) == IF n < 10 THEN <<DigitChar(n)>>
             ELSE Append(Digits(n \div 10), DigitChar(n % 10))

\* String(n) for any integer n
NumStr(n) == IF n < 0 THEN <<"-">> \o Digits(0 - n) ELSE Digits(n)

\* s.length: the characters of the lines and one "\n" between two lines.
RECURSIVE SumLen(_)
SumLen(ls) == IF ls = <<>> THEN 0 ELSE Len(Head(ls)) + SumLen(Tail(ls))

StrLen(s) == SumLen(s) + Len(s) - 1

\* a + b: the last line of a runs on into the first line of b.
Concat(a, b) ==
    SubSeq(a, 1, Len(a) - 1) \o <<a[Len(a)] \o b[1]>> \o SubSeq(b, 2, Len(b))

\* s.split("\n"): the array of lines.
Split(s) == s

\* lines.join("\n"): [].join("\n") is "", the string of one empty line.
Join(ls) == IF ls = <<>> THEN EmptyStr ELSE ls

\* A non-empty string is truthy.
Truthy(s) == s # EmptyStr

\* Array.prototype.slice(start, end) with JavaScript's treatment of
\* negative and out-of-range indices (indices are 0-based, end exclusive).
RelIndex(i, len) == IF i < 0 THEN Max(len + i, 0) ELSE Min(i, len)

ArraySlice(arr, start, end) ==
    SubSeq(arr, RelIndex(start, Len(arr)) + 1, RelIndex(end, Len(arr)))

\* arr.slice(start): to the end of the array.
ArraySliceFrom(arr, start) == ArraySlice(arr, start, Len(arr))

\* s.slice(0, n) for 0 <= n: the first n characters.
RECURSIVE TakeChars(_, _)
TakeChars(s, n) ==
    IF n <= Len(s[1]) THEN <<SubSeq(s[1], 1, n)>>
    ELSE IF Len(s) = 1 THEN s
    ELSE <<s[1]>> \o TakeChars(Tail(s), n - Len(s[1]) - 1)

\* s.slice(-n) for 0 < n: the last n characters.
RECURSIVE LastChars(_, _)
LastChars(s, n) ==
    LET l == s[Len(s)] IN
    IF n <= Len(l) THEN <<SubSeq(l, Len(l) - n + 1, Len(l))>>
    ELSE IF Len(s) = 1 THEN s
    ELSE LastChars(SubSeq(s, 1, Len(s) - 1), n - Len(l) - 1) \o <<l>>

\* line.includes(pat)
Includes(line, pat) ==
    \E i \in 0..(Len(line) - Len(pat)) : \A j \in 1..Len(pat) : line[i + j] = pat[j]

\* /^pat/ for a literal pat
StartsWith(line, pat) ==
    Len(line) >= Len(pat) /\ \A j \in 1..Len(pat) : line[j] = pat[j]

\* The white space a line can hold (\s of a regular expression and the
\* characters trim() removes; "\n" is white space too, between lines).
WhiteSpace == {" ", TAB, CR}
DigitChars == {"0", "1", "2", "3", "4", "5", "6", "7", "8", "9"}

\* The first index >= i of line whose character is not in class, or
\* Len(line) + 1: where a greedy run class* starting at i ends.
RECURSIVE SkipClass(_, _, _)
SkipClass(line, i, class) ==
    IF i <= Len(line) /\ line[i] \in class THEN SkipClass(line, i + 1, class)
    ELSE i

\* The last index <= i of line whose character is not white space, or 0.
RECURSIVE SkipSpaceBack(_, _)
SkipSpaceBack(line, i) ==
    IF i >= 1 /\ line[i] \in WhiteSpace THEN SkipSpaceBack(line, i - 1)
    ELSE i

IsBlank(line) == SkipClass(line, 1, WhiteSpace) > Len(line)

\* s.trim(): white space, line breaks included, removed at both ends.
RECURSIVE TrimStart(_)
TrimStart(s) ==
    IF IsBlank(s[1])
    THEN IF Len(s) = 1 THEN EmptyStr ELSE TrimStart(Tail(s))
    ELSE <<SubSeq(s[1], SkipClass(s[1], 1, WhiteSpace), Len(s[1]))>> \o Tail(s)

RECURSIVE TrimEnd(_)
TrimEnd(s) ==
    LET l == s[Len(s)] IN
    IF IsBlank(l)
    THEN IF Len(s) = 1 THEN EmptyStr ELSE TrimEnd(SubSeq(s, 1, Len(s) - 1))
    ELSE SubSeq(s, 1, Len(s) - 1) \o <<SubSeq(l, 1, SkipSpaceBack(l, Len(l)))>>

Trim(s) == TrimEnd(TrimStart(s))


(***************************************************************************)
(* The log store: logStore is a JavaScript Map, which keeps its keys in    *)
(* insertion order; it is held as the sequence of its [key, value] pairs   *)
(* in that order.                                                          *)
(***************************************************************************)
MapSize(m) == Len(m)

MapKeys(m) == [i \in 1..Len(m) |-> m[i].key]

MapValues(m) == [i \in 1..Len(m) |-> m[i].value]

MapHas(m, k) == \E i \in 1..Len(m) : m[i].key = k

\* m.get(k): the value, or Undefined when the key is absent.
Undefined == [undefined |-> TRUE]

MapGet(m, k) ==
    IF MapHas(m, k) THEN m[CHOOSE i \in 1..Len(m) : m[i].key = k].value
    ELSE Undefined

\* A variant of MapDelete that removes the pair inserted last, whatever k.
MapDeleteNewest(m, k) == SubSeq(m, 1, Len(m) - 1)

\* m.delete(k)
MapDelete(m, k) == SelectSeq(m, LAMBDA p : p.key # k)

\* m.set(k, v): an existing key keeps its place, a new key goes last.
MapSet(m, k, v) ==
    IF MapHas(m, k)
    THEN [i \in 1..Len(m) |-> IF m[i].key = k THEN [key |-> k, value |-> v] ELSE m[i]]
    ELSE Append(m, [key |-> k, value |-> v])

\* A variant of LogId that numbers the ids within 1..MAX_LOGS, so that
\* the id after log-100 is log-1 again.
LogIdRecycled(n) == S_logDash \o NumStr(((n - 1) % MAX_LOGS) + 1)

\* `log-${n}`
LogId(n) == S_logDash \o NumStr(n)

\* new Date(now).toISOString(): a fixed-width text whose last field before
\* the "Z" is the millisecond count, now being the milliseconds elapsed
\* since 2026-01-01T00:00:00.000Z (less than one second in this model).
IsoString(now) ==
    S_IsoDate \o <<DigitChar(now \div 100), DigitChar((now \div 10) % 10),
                   DigitChar(now % 10), "Z">>

\* A variant of storeLog that evicts only once the store holds more than
\* MAX_LOGS entries.
StoreLogLate(m, n, now, command, result) ==
    LET id   == LogId(n + 1)
        kept == IF MapSize(m) > MAX_LOGS THEN MapDelete(m, MapKeys(m)[1]) ELSE m
    IN  [logStore |-> MapSet(kept, id,
                             [id |-> id, command |-> command,
                              timestamp |-> IsoString(now), stdout |-> result.stdout,
                              stderr |-> result.stderr, exitCode |-> result.exitCode]),
         logCounter |-> n + 1, id |-> id]

\* A variant of storeLog that takes the next number only when it does not
\* evict.
StoreLogStalled(m, n, now, command, result) ==
    LET counter == IF MapSize(m) >= MAX_LOGS THEN n ELSE n + 1
        id      == LogId(counter)
        kept    == IF MapSize(m) >= MAX_LOGS THEN MapDelete(m, MapKeys(m)[1]) ELSE m
    IN  [logStore |-> MapSet(kept, id,
                             [id |-> id, command |-> command,
                              timestamp |-> IsoString(now), stdout |-> result.stdout,
                              stderr |-> result.stderr, exitCode |-> result.exitCode]),
         logCounter |-> counter, id |-> id]

\* A variant of storeLog that stamps every entry of the store with the
\* time of the latest archiving.
StoreLogRestamped(m, n, now, command, result) ==
    LET id   == LogId(n + 1)
        kept == IF MapSize(m) >= MAX_LOGS THEN MapDelete(m, MapKeys(m)[1]) ELSE m
        set  == MapSet(kept, id,
                       [id |-> id, command |-> command,
                        timestamp |-> IsoString(now), stdout |-> result.stdout,
                        stderr |-> result.stderr, exitCode |-> result.exitCode])
    IN  [logStore |-> [i \in 1..Len(set) |->
                          [key |-> set[i].key,
                           value |-> [set[i].value EXCEPT !.timestamp = IsoString(now)]]],
         logCounter |-> n + 1, id |-> id]

\* storeLog(command, result) on the store m with counter n at time now:
\* the new store, the new counter and the id returned.
StoreLog(m, n, now, command, result) ==
    LET counter == n + 1
        id      == LogId(counter)
        kept    == IF MapSize(m) >= MAX_LOGS
                   THEN MapDelete(m, MapKeys(m)[1])
                   ELSE m
        entry   == [id        |-> id,
                    command   |-> command,
                    timestamp |-> IsoString(now),
                    stdout    |-> result.stdout,
                    stderr    |-> result.stderr,
                    exitCode  |-> result.exitCode]
    IN  [logStore |-> MapSet(kept, id, entry), logCounter |-> counter, id |-> id]

(***************************************************************************)
(* formatResult.                                                           *)
(***************************************************************************)
\* /^\s*\d+(\.\d+)?\s*(KiB|MiB|GiB)/
UnitAt(line, i) ==
    \E u \in {S_KiB, S_MiB, S_GiB} :
        i + 2 <= Len(line) /\ \A j \in 1..3 : line[i + j - 1] = u[j]

MatchesDownloadProgress(line) ==
    LET i1 == SkipClass(line, 1, WhiteSpace)
        i2 == SkipClass(line, i1, DigitChars)
        f  == IF i2 <= Len(line) /\ line[i2] = "." 
              THEN SkipClass(line, i2 + 1, DigitChars) ELSE i2
        i3 == IF f > i2 + 1 THEN f ELSE i2
    IN  /\ i2 > i1
        /\ \/ UnitAt(line, SkipClass(line, i3, WhiteSpace))
           \/ UnitAt(line, SkipClass(line, i2, WhiteSpace))

\* The filter callback of formatResult: TRUE for a line that is kept.
KeepStderrLine(line) ==
    IF Includes(line, S_Warning) /\ Includes(line, S_experimental) THEN FALSE
    ELSE IF Includes(line, S_EscBracket) \/ Includes(line, <<CR>>) THEN FALSE
    ELSE IF StartsWith(line, S_copyingPath) THEN FALSE
    ELSE IF MatchesDownloadProgress(line) THEN FALSE
    ELSE TRUE

\* The lines last to first.
RECURSIVE Reversed(_)
Reversed(lines) ==
    IF lines = <<>> THEN <<>> ELSE Reversed(Tail(lines)) \o <<Head(lines)>>

\* A variant of the filter that joins the kept lines last to first.
FilteredStderrReversed(stderr) ==
    Trim(Join(Reversed(SelectSeq(Split(stderr), KeepStderrLine))))

\* result.stderr.split("\n").filter(...).join("\n").trim()
FilteredStderr(stderr) == Trim(Join(SelectSeq(Split(stderr), KeepStderrLine)))

\* fullOutput and needsLog
FullOutput(result) == Concat(result.stdout, result.stderr)

\* A variant of needsLog that archives from MAX_OUTPUT_CHARS characters on.
NeedsLogFromLimit(result) ==
    \/ StrLen(FullOutput(result)) >= MAX_OUTPUT_CHARS
    \/ Len(Split(FullOutput(result))) > MAX_OUTPUT_LINES

NeedsLog(result) ==
    \/ StrLen(FullOutput(result)) > MAX_OUTPUT_CHARS
    \/ Len(Split(FullOutput(result))) > MAX_OUTPUT_LINES

\* output after the stdout block, and after the stderr block.
StdoutBlock(result) ==
    IF Truthy(result.stdout) THEN Concat(EmptyStr, result.stdout) ELSE EmptyStr

StderrBlock(output, stderr, filteredStderr) ==
    IF Truthy(stderr) /\ Truthy(filteredStderr)
    THEN Concat(output, Concat(IF Truthy(output) THEN <<<<>>, <<>>>> ELSE EmptyStr,
                               filteredStderr))
    ELSE output

\* output before any truncation.
DisplayString(result) ==
    StderrBlock(StdoutBlock(result), result.stderr, FilteredStderr(result.stderr))

\* `... (${removed} lines omitted) ...`
LinesMarker(removed) == S_MarkOpen \o NumStr(removed) \o S_linesOmitted

\* A variant of the line truncation that keeps MAX_OUTPUT_LINES lines, the
\* marker included.
TruncateLinesToLimit(lines) ==
    IF Len(lines) > MAX_OUTPUT_LINES
    THEN ArraySlice(lines, 0, MAX_OUTPUT_LINES \div 2)
         \o <<LinesMarker(Len(lines) - MAX_OUTPUT_LINES + 1)>>
         \o ArraySliceFrom(lines, 1 - MAX_OUTPUT_LINES \div 2)
    ELSE lines

\* The line truncation: the array lines after the first if block.
TruncateLines(lines) ==
    IF Len(lines) > MAX_OUTPUT_LINES
    THEN LET keepLines == MAX_OUTPUT_LINES \div 2
             removed   == Len(lines) - MAX_OUTPUT_LINES
         IN  ArraySlice(lines, 0, keepLines)
             \o <<LinesMarker(removed)>>
             \o ArraySliceFrom(lines, 0 - keepLines)
    ELSE lines

\* `\n... (${removed} characters omitted) ...\n`
CharsMarker(removed) ==
    << <<>>, S_MarkOpen \o NumStr(removed) \o S_charsOmitted, <<>> >>

\* The character truncation of output.
TruncateChars(output) ==
    IF StrLen(output) > MAX_OUTPUT_CHARS
    THEN LET keepChars == MAX_OUTPUT_CHARS \div 2
             removed   == StrLen(output) - MAX_OUTPUT_CHARS
         IN  Concat(Concat(TakeChars(output, keepChars), CharsMarker(removed)),
                    LastChars(output, keepChars))
    ELSE output

\* statusParts; logId is Null when nothing was archived: null is held as
\* the empty sequence, which no id equals and which is falsy, as null is.
Null == <<>>

\* A variant of statusParts that states the exit code whatever it is.
StatusPartsAlways(exitCode, logId) ==
    <<S_ExitCode \o NumStr(exitCode)>>
    \o (IF logId # Null THEN <<S_FullLog \o logId \o S_Quote>> ELSE <<>>)

StatusParts(exitCode, logId) ==
    (IF exitCode # 0 THEN <<S_ExitCode \o NumStr(exitCode)>> ELSE <<>>)
    \o (IF logId # Null THEN <<S_FullLog \o logId \o S_Quote>> ELSE <<>>)

\* statusParts.join(" | ")
RECURSIVE JoinWith(_, _)
JoinWith(parts, sep) ==
    IF Len(parts) = 0 THEN <<>>
    ELSE IF Len(parts) = 1 THEN parts[1]
    ELSE parts[1] \o sep \o JoinWith(Tail(parts), sep)

\* output with the footer "\n\n[" + statusParts.join(" | ") + "]" appended.
AddFooter(output, exitCode, logId) ==
    IF Len(StatusParts(exitCode, logId)) > 0
    THEN Concat(output, << <<>>, <<>>, <<"[">> \o JoinWith(StatusParts(exitCode, logId), S_Sep)
                                             \o <<"]">> >>)
    ELSE output

(***************************************************************************)
(* handleTool: get_log and list_logs.  A handler either returns a string   *)
(* or throws; the result is [threw, value], value being the string         *)
(* returned or the message of the Error thrown.                            *)
(***************************************************************************)
Return(str) == [threw |-> FALSE, value |-> str]
Throw(message) == [threw |-> TRUE, value |-> message]

\* [a, b, ...].join("\n") for strings: their lines, one after the other.
RECURSIVE JoinStrs(_)
JoinStrs(strs) == IF strs = <<>> THEN <<>> ELSE Head(strs) \o JoinStrs(Tail(strs))

\* An optional value: Absent (undefined or null), or Some(v).
Absent == [absent |-> TRUE]
Some(v) == [some |-> v]

\* Truthiness of an optional number or string argument.
TruthyNum(v) == v # Absent /\ v.some # 0
TruthyStr(v) == v # Absent /\ v.some # <<>>

\* new RegExp(pattern, "i") for the patterns of this model: a pattern made
\* of letters, digits and spaces matches the lines that contain it, letter
\* case ignored; a pattern with an unclosed "(" does not compile and the
\* constructor throws a SyntaxError.
UpperCase == <<"A", "B", "C", "D", "E", "F", "G", "H", "I", "J", "K", "L", "M",
               "N", "O", "P", "Q", "R", "S", "T", "U", "V", "W", "X", "Y", "Z">>
LowerCase == <<"a", "b", "c", "d", "e", "f", "g", "h", "i", "j", "k", "l", "m",
               "n", "o", "p", "q", "r", "s", "t", "u", "v", "w", "x", "y", "z">>

LowerOf == [c \in {UpperCase[i] : i \in 1..26} |->
               LowerCase[CHOOSE i \in 1..26 : UpperCase[i] = c]]

ToLower(c) == IF c \in DOMAIN LowerOf THEN LowerOf[c] ELSE c

LowerLine(line) == [i \in 1..Len(line) |-> ToLower(line[i])]

\* line.includes(pat), letter case ignored, for a lower-case pat
IncludesIgnoringCase(line, pat) ==
    \E i \in 0..(Len(line) - Len(pat)) :
        \A j \in 1..Len(pat) : ToLower(line[i + j]) = pat[j]

RegExpCompiles(pattern) == \A i \in 1..Len(pattern) : pattern[i] # "("

S_InvalidRegExp == <<"I", "n", "v", "a", "l", "i", "d", " ", "r", "e", "g", "u", "l", "a", "r", " ", "e", "x", "p", "r", "e", "s", "s", "i", "o", "n", ":", " ", "/">>
S_UnterminatedGroup == <<"/", ":", " ", "U", "n", "t", "e", "r", "m", "i", "n", "a", "t", "e", "d", " ", "g", "r", "o", "u", "p">>

RegExpError(pattern) == S_InvalidRegExp \o pattern \o S_UnterminatedGroup

\* pattern.test(line)
RegExpTest(pattern, line) == IncludesIgnoringCase(line, LowerLine(pattern))

\* The lines of the log a get_log call shows: entry.stdout + "\n" +
\* entry.stderr, the grep filter, then head, then tail.
GetLogGrep(output, args) ==
    IF TruthyStr(args.grep)
    THEN Join(SelectSeq(Split(output), LAMBDA line : RegExpTest(args.grep.some, line)))
    ELSE output

GetLogHead(lines, args) ==
    IF TruthyNum(args.head) THEN ArraySlice(lines, 0, args.head.some) ELSE lines

GetLogTail(lines, args) ==
    IF TruthyNum(args.tail) THEN ArraySliceFrom(lines, 0 - args.tail.some) ELSE lines

EntryOutput(entry) == Concat(Concat(entry.stdout, <<<<>>, <<>>>>), entry.stderr)

\* A variant of get_log that applies tail before head.
GetLogLinesTailFirst(entry, args) ==
    GetLogHead(GetLogTail(Split(GetLogGrep(EntryOutput(entry), args)), args), args)

GetLogLines(entry, args) ==
    GetLogTail(GetLogHead(Split(GetLogGrep(EntryOutput(entry), args)), args), args)

\* The four header lines of a get_log response.
GetLogHeader(entry) ==
    << S_CommandNix \o entry.command,
       S_ExitCode \o NumStr(entry.exitCode),
       S_Timestamp \o entry.timestamp,
       <<>> >>

\* A variant of get_log that throws when the store has no such entry.
GetLogThrowing(m, args) ==
    IF MapGet(m, args.log_id) = Undefined
    THEN Throw(<<S_LogNotFound \o args.log_id, S_UseList>>)
    ELSE IF TruthyStr(args.grep) /\ ~RegExpCompiles(args.grep.some)
    THEN Throw(Str(RegExpError(args.grep.some)))
    ELSE Return(JoinStrs(<<GetLogHeader(MapGet(m, args.log_id)),
                           Join(GetLogLines(MapGet(m, args.log_id), args))>>))

\* case "get_log"
GetLog(m, args) ==
    LET logId == args.log_id
        entry == MapGet(m, logId)
    IN  IF entry = Undefined
        THEN Return(<<S_LogNotFound \o logId, S_UseList>>)
        ELSE IF TruthyStr(args.grep) /\ ~RegExpCompiles(args.grep.some)
        THEN Throw(Str(RegExpError(args.grep.some)))
        ELSE Return(JoinStrs(<<GetLogHeader(entry), Join(GetLogLines(entry, args))>>))

\* b.localeCompare(a) for two timestamps of toISOString, which have the
\* same length and differ in digits only: 0 when they are equal, and
\* otherwise the sign of the comparison at the first position where they
\* differ.
DigitValue(c) == CHOOSE d \in 0..9 : DigitChar(d) = c

FirstDifference(a, b) ==
    CHOOSE k \in 1..Len(a) : a[k] # b[k] /\ \A j \in 1..(k - 1) : a[j] = b[j]

LocaleCompare(b, a) ==
    IF a = b THEN 0
    ELSE IF DigitValue(b[FirstDifference(a, b)]) < DigitValue(a[FirstDifference(a, b)])
    THEN 0 - 1
    ELSE 1

\* logs.sort((a, b) => b.timestamp.localeCompare(a.timestamp)): the sort
\* is stable, so the result is, for each timestamp from the latest to the
\* earliest, the entries that carry it in the order they had in logs.
Latest(stamps) == CHOOSE t \in stamps : \A u \in stamps : LocaleCompare(u, t) <= 0

RECURSIVE SortedByStamp(_, _)
SortedFrom(logs, stamps, latest) ==
    SelectSeq(logs, LAMBDA log : log.timestamp = latest)
    \o SortedByStamp(logs, stamps \ {latest})

SortedByStamp(logs, stamps) ==
    IF stamps = {} THEN <<>> ELSE SortedFrom(logs, stamps, Latest(stamps))

SortByTimestampDesc(logs) ==
    SortedByStamp(logs, {logs[i].timestamp : i \in 1..Len(logs)})

\* The entries list_logs shows.
ListedLogs(m) == ArraySlice(SortByTimestampDesc(MapValues(m)), 0, 20)

\* One line of the list_logs response.
ListLine(log) ==
    <<"[">> \o log.id \o <<"]", " ">> \o log.timestamp
    \o <<" ", "-", " ", "n", "i", "x", " ">>
    \o SubSeq(log.command, 1, Min(50, Len(log.command)))
    \o (IF Len(log.command) > 50 THEN <<".", ".", ".">> ELSE <<>>)
    \o <<" ", "(", "e", "x", "i", "t", ":", " ">> \o NumStr(log.exitCode) \o <<")">>

\* logs.map(...).join("\n")
ListLines(logs) == [i \in 1..Len(logs) |-> ListLine(logs[i])]

\* case "list_logs"
ListLogs(m) ==
    IF Len(ListedLogs(m)) = 0 THEN Return(Str(S_NoLogs))
    ELSE Return(ListLines(ListedLogs(m)))


(***************************************************************************)
(* The dispatcher: tool names, the command tools and the request handler.  *)
(***************************************************************************)
T_build == <<"b", "u", "i", "l", "d">>
T_flake_check == <<"f", "l", "a", "k", "e", "_", "c", "h", "e", "c", "k">>
T_get_log == <<"g", "e", "t", "_", "l", "o", "g">>
T_list_logs == <<"l", "i", "s", "t", "_", "l", "o", "g", "s">>
T_nix_get_log == <<"n", "i", "x", "_", "g", "e", "t", "_", "l", "o", "g">>
T_nix_list_logs == <<"n", "i", "x", "_", "l", "i", "s", "t", "_", "l", "o", "g", "s">>

\* The command tools of the model, called without arguments, and the
\* argument list nixArgs each builds.
CommandTools == {T_build, T_flake_check}

NixArgs(name) ==
    IF name = T_build THEN << <<"b", "u", "i", "l", "d">> >>
    ELSE << <<"f", "l", "a", "k", "e">>, <<"c", "h", "e", "c", "k">> >>

\* nixArgs.join(" ")
CommandOf(name) == JoinWith(NixArgs(name), <<" ">>)

\* The names handleTool's switch has a case for (of the tools modelled).
KnownTools == CommandTools \cup {T_get_log, T_list_logs}

S_UnknownTool == <<"U", "n", "k", "n", "o", "w", "n", " ", "t", "o", "o", "l", ":", " ">>
S_ErrorPrefix == <<"E", "r", "r", "o", "r", ":", " ">>

\* The default case of handleTool.
UnknownTool(name) == Throw(Str(S_UnknownTool \o name))

\* A variant of the handler that does not mark the response of a throw.
ToolResponseUnmarked(r) ==
    IF r.threw
    THEN [text |-> Concat(Str(S_ErrorPrefix), r.value), isError |-> FALSE]
    ELSE [text |-> r.value, isError |-> FALSE]

\* The CallToolRequestSchema handler around handleTool: the response.
ToolResponse(r) ==
    IF r.threw
    THEN [text |-> Concat(Str(S_ErrorPrefix), r.value), isError |-> TRUE]
    ELSE [text |-> r.value, isError |-> FALSE]

\* What execNix resolves with on the child's close event, code being the
\* exit code or Absent (null), and on its error event.
ResolveClose(stdout, stderr, code) ==
    [stdout |-> stdout, stderr |-> stderr,
     exitCode |-> IF code = Absent THEN 1 ELSE code.some]

\* A variant of the error handler that resolves with exit code 0.
ResolveErrorAsSuccess(message) ==
    [stdout |-> EmptyStr, stderr |-> message, exitCode |-> 0]

ResolveError(message) ==
    [stdout |-> EmptyStr, stderr |-> message, exitCode |-> 1]


(***************************************************************************)
(* The inputs of the model: what a child process writes and how it ends,   *)
(* and the arguments of the retrieval calls.                               *)
(***************************************************************************)
Rep(c, n) == [i \in 1..n |-> c]

\* The lines "1", "2", ..., "n".
NumberedLines(n) == [i \in 1..n |-> Digits(i)]

\* n lines of width characters each, line i starting with its number.
WideLines(n, width) == [i \in 1..n |-> Digits(i) \o Rep("x", width - Len(Digits(i)))]

\* A progress-bar redraw of 99 characters.
ProgressLine == <<ESC, "[", "K">> \o Rep("#", 96)

S_ErrorLine == <<"e", "r", "r", "o", "r", ":", " ", "b", "u", "i", "l", "d", "e", "r", " ", "f", "o", "r", " ", "h", "e", "l", "l", "o", " ", "f", "a", "i", "l", "e", "d", " ", "w", "i", "t", "h", " ", "e", "x", "i", "t", " ", "c", "o", "d", "e", " ", "1", " ", "!">>
S_WarnLine == <<"W", "a", "r", "n", "i", "n", "g", ":", " ", "e", "x", "p", "e", "r", "i", "m", "e", "n", "t", "a", "l", " ", "f", "e", "a", "t", "u", "r", "e">>
S_CopyLine == <<"c", "o", "p", "y", "i", "n", "g", " ", "p", "a", "t", "h", " ", "'", "/", "n", "i", "x", "'">>
S_SizeLine == <<" ", "1", "2", ".", "3", " ", "M", "i", "B", " ", "d", "l">>
S_SpawnError == <<"s", "p", "a", "w", "n", " ", "n", "i", "x", " ", "E", "N", "O", "E", "N", "T">>

Out(stdout, stderr, code) == [stdout |-> stdout, stderr |-> stderr, code |-> code]

\* A short success: nothing to archive, nothing to cut.
R_ok == Out(Str(<<"o", "k">>), EmptyStr, Some(0))
\* No output at all.
R_silent == Out(EmptyStr, EmptyStr, Some(0))
\* MAX_OUTPUT_LINES + 1 empty lines on stdout.
R_fill == Out(Rep(<<>>, MAX_OUTPUT_LINES + 1), EmptyStr, Some(0))
\* One line of exactly MAX_OUTPUT_CHARS characters, and one character more.
R_chars == Out(Str(Rep("a", MAX_OUTPUT_CHARS)), EmptyStr, Some(0))
R_charsPlus == Out(Str(Rep("a", MAX_OUTPUT_CHARS + 1)), EmptyStr, Some(0))
\* MAX_OUTPUT_CHARS characters, half on stdout and half on stderr.
R_halves == Out(Str(Rep("a", MAX_OUTPUT_CHARS \div 2)),
                Str(Rep("b", MAX_OUTPUT_CHARS \div 2)), Some(0))
\* MAX_OUTPUT_LINES lines of stderr, one more, and sixty.
R_lines == Out(EmptyStr, NumberedLines(MAX_OUTPUT_LINES), Some(1))
R_linesPlus == Out(EmptyStr, NumberedLines(MAX_OUTPUT_LINES + 1), Some(1))
R_sixty == Out(EmptyStr, NumberedLines(60), Some(1))
\* MAX_OUTPUT_LINES lines in all: stdout ends in the middle of a line that
\* stderr continues.
R_joined == Out(NumberedLines(MAX_OUTPUT_LINES \div 2),
                NumberedLines(MAX_OUTPUT_LINES \div 2 + 1), Some(0))
\* 3000 characters of progress bars and 50 characters of error text.
R_noise == Out(EmptyStr, Rep(ProgressLine, 30) \o <<S_ErrorLine>>, Some(1))
\* Every kind of noise around one real line, with blank lines at the ends;
\* the child was killed by a signal.
R_mixed == Out(Str(<<"o", "u", "t">>),
               << <<>>, S_WarnLine, S_CopyLine, <<" ", " ">>, S_ErrorLine,
                  S_SizeLine, <<"r", CR>>, <<" ">> >>, Absent)
\* Sixty lines of noise around one real line.
R_noisy == Out(EmptyStr, Rep(ProgressLine, 30) \o <<S_ErrorLine>> \o Rep(S_CopyLine, 29), Some(1))
\* Sixty lines of 100 characters: too many lines and, once cut to
\* MAX_OUTPUT_LINES of them, still too many characters.
R_wide == Out(EmptyStr, WideLines(60, 100), Some(2))
\* Twenty lines of 250 characters on stdout: few lines, too many characters.
R_twenty == Out(WideLines(20, 250), EmptyStr, Some(0))
\* Noise around two real lines, after a "copying path" line that is indented.
R_indent == Out(EmptyStr,
                << <<" ", " ">> \o S_CopyLine, S_WarnLine, S_ErrorLine, S_CopyLine,
                   <<"n", "o", "t", "e">>, <<" ">> >>, Some(1))

\* The outputs by name.
ResultNames == {"ok", "silent", "fill", "chars", "charsPlus", "halves", "lines",
                "linesPlus", "sixty", "joined", "noise", "mixed", "noisy", "wide",
                "twenty", "indent"}

ResultNamed(name) ==
    CASE name = "ok" -> R_ok
      [] name = "silent" -> R_silent
      [] name = "fill" -> R_fill
      [] name = "chars" -> R_chars
      [] name = "charsPlus" -> R_charsPlus
      [] name = "halves" -> R_halves
      [] name = "lines" -> R_lines
      [] name = "linesPlus" -> R_linesPlus
      [] name = "sixty" -> R_sixty
      [] name = "joined" -> R_joined
      [] name = "noise" -> R_noise
      [] name = "mixed" -> R_mixed
      [] name = "noisy" -> R_noisy
      [] name = "wide" -> R_wide
      [] name = "twenty" -> R_twenty
      [] name = "indent" -> R_indent

Results == {ResultNamed(name) : name \in ResultNames}

None == Absent

LogArgs(id, grep, head, tail) ==
    [log_id |-> id, grep |-> grep, head |-> head, tail |-> tail]

\* The filters of the get_log calls: <<grep, head, tail>>.
NoFilter == <<None, None, None>>

Filters ==
    {NoFilter,
     <<None, Some(10), None>>, <<None, None, Some(5)>>,
     <<None, Some(10), Some(5)>>, <<None, Some(5), Some(10)>>,
     <<None, Some(0), None>>, <<None, None, Some(0)>>,
     <<Some(<<"E", "r", "r", "o", "r">>), None, None>>,
     <<Some(<<"1">>), Some(10), Some(5)>>,
     <<Some(<<"(">>), None, None>>}

\* The get_log calls made when the counter is n: the filters on the last
\* id issued, and no filter on the first two ids and on the next id.
FewFilters == {NoFilter, <<None, Some(10), Some(5)>>}

GetLogCalls(filters, n) ==
    {LogArgs(LogId(n), f[1], f[2], f[3]) : f \in filters}
    \cup {LogArgs(LogId(k), None, None, None) : k \in {1, 2, n + 1}}

(***************************************************************************)
(* formatResult, in two parts: what it computes from result alone (the     *)
(* locals needsLog, output before the footer, and truncated), and the      *)
(* whole function, which also archives and adds the footer.                *)
(***************************************************************************)
RenderJoined(needsLog, linesCut, joined) ==
    [needsLog  |-> needsLog,
     output    |-> TruncateChars(joined),
     truncated |-> linesCut \/ StrLen(joined) > MAX_OUTPUT_CHARS]

RenderDisplay(needsLog, display) ==
    RenderJoined(needsLog, Len(Split(display)) > MAX_OUTPUT_LINES,
                 Join(TruncateLines(Split(display))))

RenderResult(result) == RenderDisplay(NeedsLog(result), DisplayString(result))

\* RenderResult, computed once for each result the model's children can
\* produce.
ModelResults ==
    {ResolveClose(out.stdout, out.stderr, out.code) : out \in Results}
    \cup {ResolveError(Str(S_SpawnError))}

RenderTable == [result \in ModelResults |-> RenderResult(result)]

Rendered(result) ==
    IF result \in ModelResults THEN RenderTable[result] ELSE RenderResult(result)

\* formatResult(command, result) on the store m with counter n at time
\* now: the string returned (output), the store and counter it leaves, and
\* the values of its locals needsLog, logId and truncated.
OrCompleted(output) == IF Truthy(output) THEN output ELSE Str(S_Completed)

\* A variant that archives what is left of stderr after the noise filter.
ArchiveFiltered(needsLog, m, n, now, command, result) ==
    IF needsLog
    THEN StoreLog(m, n, now, command,
                  [result EXCEPT !.stderr = FilteredStderr(result.stderr)])
    ELSE [logStore |-> m, logCounter |-> n, id |-> Null]

\* A variant that takes a number for every execution, archived or not.
ArchiveCounting(needsLog, m, n, now, command, result) ==
    IF needsLog THEN StoreLog(m, n, now, command, result)
    ELSE [logStore |-> m, logCounter |-> n + 1, id |-> Null]

Archive(needsLog, m, n, now, command, result) ==
    IF needsLog THEN StoreLog(m, n, now, command, result)
    ELSE [logStore |-> m, logCounter |-> n, id |-> Null]

FormatStored(r, stored, result) ==
    [output     |-> OrCompleted(AddFooter(r.output, result.exitCode, stored.id)),
     logStore   |-> stored.logStore,
     logCounter |-> stored.logCounter,
     needsLog   |-> r.needsLog,
     logId      |-> stored.id,
     truncated  |-> r.truncated]

FormatRendered(r, m, n, now, command, result) ==
    FormatStored(r, Archive(r.needsLog, m, n, now, command, result), result)

FormatResult(m, n, now, command, result) ==
    FormatRendered(Rendered(result), m, n, now, command, result)

(***************************************************************************)
(* The server as a state machine.                                          *)
(*                                                                         *)
(* Everything runs on one thread: a request for get_log or list_logs is    *)
(* answered in one step, and a request for a command tool takes two, the   *)
(* call that spawns the child and the event (close or error) that          *)
(* resolves the promise of execNix, after which formatResult runs to its   *)
(* end with no other handler in between.  The data events before a close   *)
(* only append to the locals stdout and stderr of that call, which nothing *)
(* else reads; the close action receives their final values.               *)
(*                                                                         *)
(* A run follows one plan, fixed when the server starts: which outputs the *)
(* children write, which command tools are called, whether a spawn can     *)
(* fail, which filters the get_log calls use, and how many filler commands *)
(* (each archiving R_fill, one after the other within the first            *)
(* millisecond) run first.  After the filler commands up to MaxExecs       *)
(* commands run, up to MaxInFlight of them at a time, while the clock      *)
(* advances by up to MaxTicks milliseconds.                                *)
(*   - one plan for each output of Results: every child writes that        *)
(*     output, and the get_log calls use every filter on the logs of       *)
(*     R_sixty and R_twenty, and two on the others;                        *)
(*   - "varied": a child writes R_ok or R_sixty or cannot be spawned, and  *)
(*     both command tools are called;                                      *)
(*   - "long": MAX_LOGS filler commands, which fill the store, and then    *)
(*     children that write R_ok or R_sixty, so that the store evicts.      *)
(***************************************************************************)
MaxExecs == 2
MaxInFlight == 2
MaxTicks == 1

Slots == 1..MaxInFlight

UniformPlan(name) ==
    [outputs |-> {name}, tools |-> {T_build}, errors |-> FALSE,
     filters |-> IF name \in {"sixty", "twenty"} THEN "all" ELSE "few",
     warmup |-> 0]

VariedPlan ==
    [outputs |-> {"ok", "sixty"}, tools |-> CommandTools, errors |-> TRUE,
     filters |-> "few", warmup |-> 0]

LongPlan ==
    [outputs |-> {"ok", "sixty"}, tools |-> {T_build}, errors |-> FALSE,
     filters |-> "few", warmup |-> MAX_LOGS]

\* The run of the liveness specification: one short output, and children
\* that may fail to start.
BriefPlan ==
    [outputs |-> {"ok"}, tools |-> {T_build}, errors |-> TRUE,
     filters |-> "few", warmup |-> 0]

Plans == {UniformPlan(name) : name \in ResultNames} \cup {VariedPlan, LongPlan}

VARIABLES
    logStore,    \* the Map logStore, as its pairs in insertion order
    logCounter,  \* the counter logCounter
    now,         \* the clock: milliseconds since the server started
    procs,       \* per request slot: the pending command call, if any
    last,        \* the last response sent, with the call that it answers
                 \* and the slots of the calls that were pending then
    issued,      \* history: the ids returned by storeLog, in order
    evicted,     \* history: the ids of the entries storeLog has removed
    plan,        \* the plan of the run
    fill,        \* filler commands still to run
    execs        \* commands completed after the filler ones

vars == <<logStore, logCounter, now, procs, last, issued, evicted,
          plan, fill, execs>>

Idle == [pc |-> "idle", name |-> <<>>]

NoFormat == [needsLog |-> FALSE, logId |-> Null, truncated |-> FALSE]

\* Of the response that preceded a command's: its tool and the id asked for.
NoneBefore == [tool |-> <<>>, log_id |-> Null]

NoCall == [tool |-> <<>>, args |-> Absent, result |-> Absent,
           text |-> EmptyStr, isError |-> FALSE, format |-> NoFormat,
           before |-> <<>>, after |-> NoneBefore, pending |-> {}]

\* The ids of the entries of the store m that the store kept does not hold.
Removed(m, kept) ==
    {m[i].key : i \in {j \in 1..Len(m) : MapGet(kept, m[j].key) # m[j].value}}

Start(p) ==
    /\ logStore = <<>>
    /\ logCounter = 0
    /\ now = 0
    /\ procs = [s \in Slots |-> Idle]
    /\ last = NoCall
    /\ issued = <<>>
    /\ evicted = {}
    /\ plan = p
    /\ fill = p.warmup
    /\ execs = 0

Init == \E p \in Plans : Start(p)

Running == {s \in Slots : procs[s].pc = "running"}

\* A request for a command tool: handleTool builds nixArgs and execNix
\* spawns the child; the call waits for the promise.  The slots only tell
\* the pending calls apart, and a new call takes the first free one.
CallCommand(s, name) ==
    /\ procs[s].pc = "idle"
    /\ \A t \in 1..(s - 1) : procs[t].pc # "idle"
    /\ name \in plan.tools
    /\ IF fill > 0 THEN Running = {}
       ELSE execs + Cardinality(Running) < MaxExecs
    /\ procs' = [procs EXCEPT ![s] = [pc |-> "running", name |-> name]]
    /\ UNCHANGED <<logStore, logCounter, now, last, issued, evicted,
                   plan, fill, execs>>

\* The rest of a command call once execNix has resolved with result:
\* formatResult, whose outcome is f, and the response.
Respond(s, result, pc, f) ==
    /\ logStore' = f.logStore
    /\ logCounter' = f.logCounter
    /\ issued' = IF f.needsLog THEN Append(issued, f.logId) ELSE issued
    /\ evicted' = evicted \cup Removed(logStore, f.logStore)
    /\ last' = [tool |-> procs[s].name, args |-> Absent, result |-> Some(result),
                text |-> ToolResponse(Return(f.output)).text,
                isError |-> ToolResponse(Return(f.output)).isError,
                format |-> [needsLog |-> f.needsLog, logId |-> f.logId,
                            truncated |-> f.truncated],
                before |-> MapKeys(logStore),
                after |-> [tool |-> last.tool,
                           log_id |-> IF last.tool = T_get_log
                                      THEN last.args.some.log_id ELSE Null],
                pending |-> Running \ {s}]
    /\ procs' = [procs EXCEPT ![s] = [pc |-> pc, name |-> <<>>]]
    /\ IF fill > 0
       THEN fill' = fill - 1 /\ execs' = execs
       ELSE fill' = fill /\ execs' = execs + 1
    /\ UNCHANGED <<now, plan>>

Finish(s, result, pc) ==
    Respond(s, result, pc,
            FormatResult(logStore, logCounter, now, CommandOf(procs[s].name), result))

\* What a child can have written when it closes: the filler output during
\* the warm-up, and then the outputs of the plan.
Outputs == IF fill > 0 THEN {"fill"} ELSE plan.outputs

\* A variant in which the close events are handled in the order of the
\* slots: one is handled only when no earlier slot has a child running.
ProcCloseInTurn(s, name) ==
    /\ procs[s].pc = "running"
    /\ \A t \in 1..(s - 1) : procs[t].pc # "running"
    /\ name \in Outputs
    /\ Finish(s, ResolveClose(ResultNamed(name).stdout, ResultNamed(name).stderr,
                              ResultNamed(name).code), "idle")

\* The close event of a running child that wrote out.stdout and
\* out.stderr and ended with out.code, out being the output called name.
ProcClose(s, name) ==
    /\ procs[s].pc = "running"
    /\ name \in Outputs
    /\ Finish(s, ResolveClose(ResultNamed(name).stdout, ResultNamed(name).stderr,
                              ResultNamed(name).code), "idle")

\* The error event of a child that could not be spawned.
ProcError(s) ==
    /\ procs[s].pc = "running"
    /\ fill = 0
    /\ plan.errors
    /\ Finish(s, ResolveError(Str(S_SpawnError)), "failed")

\* The close event that follows an error event: the promise is resolved
\* already and resolving it again does nothing.
ProcCloseAfterError(s) ==
    /\ procs[s].pc = "failed"
    /\ procs' = [procs EXCEPT ![s] = Idle]
    /\ UNCHANGED <<logStore, logCounter, now, last, issued, evicted,
                   plan, fill, execs>>

\* A request answered without a child process: the response is recorded.
Answer(tool, args, r) ==
    /\ last' = [tool |-> tool, args |-> args, result |-> Absent,
                text |-> ToolResponse(r).text, isError |-> ToolResponse(r).isError,
                format |-> NoFormat, before |-> MapKeys(logStore),
                after |-> NoneBefore, pending |-> Running]
    /\ UNCHANGED <<logStore, logCounter, now, procs, issued, evicted,
                   plan, fill, execs>>

PlanFilters == IF plan.filters = "all" THEN Filters ELSE FewFilters

CallGetLog(args) ==
    /\ fill = 0
    /\ Answer(T_get_log, Some(args), GetLog(logStore, args))

CallListLogs ==
    /\ fill = 0
    /\ Answer(T_list_logs, Absent, ListLogs(logStore))

\* A request for a name handleTool has no case for.
CallUnknown(name) ==
    /\ fill = 0
    /\ name \notin KnownTools
    /\ Answer(name, Absent, UnknownTool(name))

\* A millisecond passes.
Tick ==
    /\ fill = 0
    /\ now < MaxTicks
    /\ now' = now + 1
    /\ UNCHANGED <<logStore, logCounter, procs, last, issued, evicted,
                   plan, fill, execs>>

Next ==
    \/ \E s \in Slots, name \in CommandTools : CallCommand(s, name)
    \/ \E s \in Slots, name \in ResultNames : ProcClose(s, name)
    \/ \E s \in Slots : ProcError(s)
    \/ \E s \in Slots : ProcCloseAfterError(s)
    \/ \E args \in GetLogCalls(PlanFilters, logCounter) : CallGetLog(args)
    \/ CallListLogs
    \/ \E name \in {T_nix_get_log, T_nix_list_logs} : CallUnknown(name)
    \/ Tick

Spec == Init /\ [][Next]_vars

\* The server on the brief plan, when
\* the children of all slots but the first exit: Node delivers the close
\* event of a child that has exited, so the close of such a child does not
\* stay pending for ever.  Nothing is assumed of the child of the first
\* slot, which may never exit.
LiveInit == Start(BriefPlan)

LiveSpec ==
    /\ LiveInit
    /\ [][Next]_vars
    /\ \A s \in Slots \ {1} : WF_vars(\E name \in ResultNames : ProcClose(s, name))

(***************************************************************************)
(* The properties of the log store.                                        *)
(***************************************************************************)
\* The keys of the store as a set.
KeySet(m) == {m[i].key : i \in 1..Len(m)}

\* The text of the response to get_log for an id the store does not hold.
NotFoundText(id) == <<S_LogNotFound \o id, S_UseList>>

\* The response recorded in last answers a command call.
IsCommandResponse == last.result # Absent

\* The response recorded in last answers a get_log call.
IsGetLogResponse == last.tool = T_get_log

\* C1: in every state the store holds at most MAX_LOGS entries, and a step
\* that inserts into a store of MAX_LOGS entries removes exactly one of the
\* entries it held and leaves MAX_LOGS entries.
C1_InsertionEvictsOne ==
    (MapSize(logStore) = MAX_LOGS /\ logStore' # logStore) =>
        /\ Cardinality(KeySet(logStore) \ KeySet(logStore')) = 1
        /\ Cardinality(KeySet(logStore') \ KeySet(logStore)) = 1
        /\ MapSize(logStore') = MAX_LOGS

C1_Capacity ==
    [](MapSize(logStore) <= MAX_LOGS) /\ [][C1_InsertionEvictsOne]_vars

\* A command has just been archived into a store that was full.
C1_Witness ==
    /\ IsCommandResponse
    /\ last.format.needsLog
    /\ Len(last.before) = MAX_LOGS
    /\ MapSize(logStore) = MAX_LOGS
    /\ evicted # {}

\* C2: get_log on the id of an entry that was evicted answers not-found,
\* with any filter, in every state from the eviction on; and a get_log call
\* that asked for such an id was answered so.
C2_EvictedNotFound ==
    /\ \A id \in evicted : \A f \in Filters :
           GetLog(logStore, LogArgs(id, f[1], f[2], f[3])) = Return(NotFoundText(id))
    /\ (IsGetLogResponse /\ last.args.some.log_id \in evicted) =>
           (last.text = NotFoundText(last.args.some.log_id) /\ ~last.isError)

\* get_log was called on an evicted id while the store was full of newer
\* entries.
C2_Witness ==
    /\ IsGetLogResponse
    /\ last.args.some.log_id \in evicted
    /\ MapSize(logStore) = MAX_LOGS

\* The number n of the id `log-${n}`.
RECURSIVE DecimalValue(_)
DecimalValue(ds) ==
    IF ds = <<>> THEN 0
    ELSE 10 * DecimalValue(SubSeq(ds, 1, Len(ds) - 1)) + DigitValue(ds[Len(ds)])

IdNumber(id) == DecimalValue(SubSeq(id, Len(S_logDash) + 1, Len(id)))

\* C3: the ids returned by storeLog, in the order of the calls, have
\* strictly increasing numbers (so no id is returned twice), whether or not
\* entries have been evicted in between and however the commands overlap.
C3_IdsIncrease ==
    /\ \A i \in 1..Len(issued) : StartsWith(issued[i], S_logDash)
    /\ \A i \in 1..(Len(issued) - 1) : IdNumber(issued[i]) < IdNumber(issued[i + 1])

\* An id was issued after an eviction, to one of two overlapping commands.
C3_Witness ==
    /\ evicted # {}
    /\ Len(issued) > MAX_LOGS
    /\ last.format.logId = issued[Len(issued)]
    /\ Running # {}

\* The id, among those of the store m, that storeLog returned first.
EarliestIssued(m) ==
    issued[CHOOSE i \in 1..Len(issued) :
               /\ MapHas(m, issued[i])
               /\ \A j \in 1..(i - 1) : ~MapHas(m, issued[j])]

\* C4: a step that inserts into a store of MAX_LOGS entries removes the
\* entry whose id was issued earliest among those present, and a get_log
\* or list_logs call leaves the store as it is, order included.
C4_EvictsEarliest ==
    /\ (MapSize(logStore) = MAX_LOGS /\ logStore' # logStore) =>
           KeySet(logStore) \ KeySet(logStore') = {EarliestIssued(logStore)}
    /\ (last' # last /\ last'.tool \in {T_get_log, T_list_logs}) =>
           logStore' = logStore

C4_Fifo == [][C4_EvictsEarliest]_vars

\* The entry evicted is the one that get_log had just returned.
C4_Witness ==
    /\ IsCommandResponse
    /\ Len(last.before) = MAX_LOGS
    /\ last.before[1] \in evicted
    /\ last.after.tool = T_get_log
    /\ last.after.log_id = last.before[1]

(***************************************************************************)
(* The properties of formatResult.                                         *)
(***************************************************************************)
\* The number of characters of stdout and stderr together, and the number
\* of lines that their newlines delimit.
CharCount(result) == StrLen(result.stdout) + StrLen(result.stderr)

LineCount(result) == (Len(result.stdout) - 1) + (Len(result.stderr) - 1) + 1

OverLimits(result) ==
    CharCount(result) > MAX_OUTPUT_CHARS \/ LineCount(result) > MAX_OUTPUT_LINES

\* The ids in the store that were not there before the last response.
NewKeys == KeySet(logStore) \ {last.before[i] : i \in 1..Len(last.before)}

\* The body of a get_log response: what follows the four header lines.
GetLogBody(text) == SubSeq(text, 5, Len(text))

\* The body of the response to get_log on id with no grep, head or tail.
FullLog(id) == GetLogBody(GetLog(logStore, LogArgs(id, None, None, None)).value)

\* The entry of the last response holds the whole of stdout and of stderr,
\* and get_log shows them, stdout first, each line as it was written.
LastIsRecoverable ==
    /\ MapHas(logStore, last.format.logId)
    /\ MapGet(logStore, last.format.logId).stdout = last.result.some.stdout
    /\ MapGet(logStore, last.format.logId).stderr = last.result.some.stderr
    /\ FullLog(last.format.logId) = last.result.some.stdout \o last.result.some.stderr

\* C5: formatResult archives a result exactly when stdout and stderr
\* together have more than MAX_OUTPUT_CHARS characters or more than
\* MAX_OUTPUT_LINES lines, and archiving adds one entry to the store, the
\* one with the id formatResult got, which holds the result.
C5_ArchivesIffOverLimits ==
    IsCommandResponse =>
        /\ last.format.needsLog <=> OverLimits(last.result.some)
        /\ NewKeys = IF last.format.needsLog THEN {last.format.logId} ELSE {}
        /\ last.format.needsLog =>
               /\ Len(SelectSeq(logStore, LAMBDA p : p.key = last.format.logId)) = 1
               /\ MapGet(logStore, last.format.logId).stdout = last.result.some.stdout
               /\ MapGet(logStore, last.format.logId).stderr = last.result.some.stderr
        /\ ~last.format.needsLog => last.format.logId = Null

\* One character more than MAX_OUTPUT_CHARS, on one line, was archived.
C5_Witness ==
    /\ IsCommandResponse
    /\ CharCount(last.result.some) = MAX_OUTPUT_CHARS + 1
    /\ LineCount(last.result.some) <= MAX_OUTPUT_LINES
    /\ last.format.needsLog
    /\ NewKeys = {last.format.logId}

\* C6: when formatResult has cut the display (inserted a lines-omitted or
\* characters-omitted marker), the result was archived, the footer gives
\* the id, and get_log on that id with no grep, head or tail shows the
\* whole of stdout and stderr.
C6_TruncatedIsRecoverable ==
    (IsCommandResponse /\ last.format.truncated) =>
        /\ last.format.needsLog
        /\ Includes(last.text[Len(last.text)], S_FullLog \o last.format.logId \o S_Quote)
        /\ LastIsRecoverable

\* The noise filter of formatResult drops a line of result.stderr; it is
\* worked out once for each result of the model.
FilterDrops(result) ==
    /\ Truthy(result.stderr)
    /\ \E i \in 1..Len(result.stderr) : ~KeepStderrLine(result.stderr[i])

DropsTable == [result \in ModelResults |-> FilterDrops(result)]

DropsNoise(result) ==
    IF result \in ModelResults THEN DropsTable[result] ELSE FilterDrops(result)

\* C7 as stated: when the noise filter drops a line of stderr, the result
\* is archived and get_log shows the whole of stdout and stderr.
C7_FilteredIsArchived ==
    (IsCommandResponse /\ DropsNoise(last.result.some)) =>
        /\ last.format.needsLog
        /\ LastIsRecoverable

\* C7, amended: when the noise filter drops a line of stderr, the result
\* is archived exactly when stdout and stderr together exceed
\* MAX_OUTPUT_CHARS characters or MAX_OUTPUT_LINES lines; when it is,
\* get_log shows the whole of stdout and stderr, the dropped lines
\* included, and when it is not, nothing is stored.
C7_FilteredArchivedIffOverLimits ==
    (IsCommandResponse /\ DropsNoise(last.result.some)) =>
        /\ last.format.needsLog <=> OverLimits(last.result.some)
        /\ last.format.needsLog => LastIsRecoverable
        /\ ~last.format.needsLog => (NewKeys = {} /\ last.format.logId = Null)

\* Noise was dropped from the display of a result that was archived.
C7_Witness ==
    /\ IsCommandResponse
    /\ DropsNoise(last.result.some)
    /\ last.format.needsLog
    /\ \E i \in 1..Len(FullLog(last.format.logId)) :
           ~KeepStderrLine(FullLog(last.format.logId)[i])

(***************************************************************************)
(* The properties of get_log.  The store is, in a state whose last         *)
(* response answers a get_log call, the store that the call read.          *)
(***************************************************************************)
\* The last response is that of a get_log call that found its entry and
\* did not throw.
GetLogFound ==
    /\ IsGetLogResponse
    /\ MapHas(logStore, last.args.some.log_id)
    /\ ~last.isError

AskedEntry == MapGet(logStore, last.args.some.log_id)

\* The lines of the log that the call selects from: those of stdout, then
\* those of stderr, and of these the ones grep keeps.
LogLines ==
    IF last.args.some.grep = None THEN AskedEntry.stdout \o AskedEntry.stderr
    ELSE Split(GetLogGrep(EntryOutput(AskedEntry), last.args.some))

FirstLines(lines, n) == SubSeq(lines, 1, Min(n, Len(lines)))

LastLines(lines, n) == SubSeq(lines, Max(1, Len(lines) - n + 1), Len(lines))

\* C8: a get_log call with head = h and tail = t, both positive, shows the
\* last t of the first h lines of the log (of the lines grep keeps, when
\* grep is given).
C8_HeadThenTail ==
    (/\ GetLogFound
     /\ last.args.some.head # None /\ last.args.some.tail # None
     /\ last.args.some.head.some > 0 /\ last.args.some.tail.some > 0) =>
        GetLogBody(last.text) =
            Join(LastLines(FirstLines(LogLines, last.args.some.head.some),
                           last.args.some.tail.some))

\* Of a log of twenty lines, head = 10 and tail = 5 showed lines 6 to 10.
C8_Witness ==
    /\ GetLogFound
    /\ last.args.some = LogArgs(last.args.some.log_id, None, Some(10), Some(5))
    /\ AskedEntry.stdout = R_twenty.stdout
    /\ GetLogBody(last.text) = SubSeq(AskedEntry.stdout, 6, 10)
    /\ GetLogBody(last.text) # SubSeq(AskedEntry.stdout, 16, 20)

\* C9: a get_log call with head = N alone, N >= 0, shows the first N lines
\* of the log and no more, and with tail = N alone the last N lines.
C9_KeepsNLines ==
    GetLogFound =>
        /\ (/\ last.args.some.head # None /\ last.args.some.tail = None
            /\ last.args.some.head.some >= 0) =>
               GetLogBody(last.text) = Join(FirstLines(LogLines, last.args.some.head.some))
        /\ (/\ last.args.some.tail # None /\ last.args.some.head = None
            /\ last.args.some.tail.some >= 0) =>
               GetLogBody(last.text) = Join(LastLines(LogLines, last.args.some.tail.some))

(***************************************************************************)
(* The line truncation of formatResult.                                    *)
(***************************************************************************)
\* The lines of the last response before its footer, which is the two
\* lines "" and "[...]" and is there when the exit code is not 0 or the
\* result was archived.
Shown ==
    IF last.result.some.exitCode # 0 \/ last.format.logId # Null
    THEN SubSeq(last.text, 1, Len(last.text) - 2)
    ELSE last.text

\* The lines of the display string of the last response before any
\* truncation, and these lines cut; both are worked out once for each
\* result of the model.
DisplayTable == [result \in ModelResults |-> Split(DisplayString(result))]

LastDisplay ==
    IF last.result.some \in ModelResults THEN DisplayTable[last.result.some]
    ELSE Split(DisplayString(last.result.some))

\* The first and last MAX_OUTPUT_LINES \div 2 of lines, around one marker
\* line that states how many lines are left out.
Half == MAX_OUTPUT_LINES \div 2

LineCut(lines) ==
    SubSeq(lines, 1, Half)
    \o <<LinesMarker(Len(lines) - 2 * Half)>>
    \o SubSeq(lines, Len(lines) - Half + 1, Len(lines))

\* `[Exit code: ${exitCode} | Full log: use nix_get_log with id="${logId}"]`
FooterWithBoth(exitCode, logId) ==
    <<"[">> \o S_ExitCode \o NumStr(exitCode) \o S_Sep
    \o S_FullLog \o logId \o S_Quote \o <<"]">>

\* C10 as stated: a display string of more than MAX_OUTPUT_LINES lines is
\* shown as MAX_OUTPUT_LINES lines: its first 25, one marker line with the
\* number of lines removed, and its last 25.
C10_CutToLimit ==
    (IsCommandResponse /\ Len(LastDisplay) > MAX_OUTPUT_LINES) =>
        /\ Len(Shown) = MAX_OUTPUT_LINES
        /\ Shown = LineCut(LastDisplay)

\* C10, amended: a display string of more than MAX_OUTPUT_LINES lines is
\* cut to MAX_OUTPUT_LINES + 1 lines: its first 25, one marker line with
\* the number of lines removed, and its last 25.  These lines are what is
\* shown when they have at most MAX_OUTPUT_CHARS characters; otherwise the
\* character truncation keeps the first and the last MAX_OUTPUT_CHARS \div 2
\* characters of them.  Sixty lines of stderr with exit code 1 are archived
\* and shown as 51 lines, with both parts in the footer.
C10_CutToLimitPlusMarker ==
    (IsCommandResponse /\ Len(LastDisplay) > MAX_OUTPUT_LINES) =>
        /\ last.format.truncated
        /\ StrLen(LineCut(LastDisplay)) <= MAX_OUTPUT_CHARS =>
               /\ Shown = LineCut(LastDisplay)
               /\ Len(Shown) = MAX_OUTPUT_LINES + 1
        /\ StrLen(LineCut(LastDisplay)) > MAX_OUTPUT_CHARS =>
               /\ TakeChars(Shown, MAX_OUTPUT_CHARS \div 2)
                      = TakeChars(LineCut(LastDisplay), MAX_OUTPUT_CHARS \div 2)
               /\ LastChars(Shown, MAX_OUTPUT_CHARS \div 2)
                      = LastChars(LineCut(LastDisplay), MAX_OUTPUT_CHARS \div 2)
        /\ (/\ last.result.some.stdout = EmptyStr
            /\ last.result.some.stderr = NumberedLines(60)
            /\ last.result.some.exitCode = 1) =>
               /\ last.format.needsLog
               /\ Len(Shown) = MAX_OUTPUT_LINES + 1
               /\ last.text[Len(last.text)] = FooterWithBoth(1, last.format.logId)

\* Sixty lines of stderr with exit code 1 were shown as 25 lines, the
\* marker for 10 lines, and 25 lines.
C10_Witness ==
    /\ IsCommandResponse
    /\ last.result.some = [stdout |-> EmptyStr, stderr |-> NumberedLines(60), exitCode |-> 1]
    /\ Len(Shown) = MAX_OUTPUT_LINES + 1
    /\ Shown[Half + 1] = LinesMarker(10)
    /\ Shown[Half] = Digits(25) /\ Shown[Half + 2] = Digits(36)
    /\ last.format.needsLog

(***************************************************************************)
(* The status footer of formatResult.                                      *)
(***************************************************************************)
\* The footer line for an exit code and, when archived, the id of the
\* entry: "[", the clauses that apply separated by " | ", and "]".
ExpectedFooter(exitCode, archived, id) ==
    <<"[">>
    \o (IF exitCode # 0 THEN S_ExitCode \o NumStr(exitCode) ELSE <<>>)
    \o (IF exitCode # 0 /\ archived THEN S_Sep ELSE <<>>)
    \o (IF archived THEN S_FullLog \o id \o S_Quote ELSE <<>>)
    \o <<"]">>

\* A line that opens as a footer does.
OpensFooter(line) ==
    StartsWith(line, <<"[">> \o S_ExitCode) \/ StartsWith(line, <<"[">> \o S_FullLog)

\* C11: the response to a command ends with the footer (an empty line and
\* the footer line) exactly when the exit code is not 0 or the result was
\* archived; the footer line has the exit-code clause exactly when the
\* exit code is not 0 and the full-log clause exactly when the result was
\* archived, with the id of the entry this execution added to the store.
C11_FooterIffStatus ==
    IsCommandResponse =>
        IF last.result.some.exitCode # 0 \/ NewKeys # {}
        THEN /\ Len(last.text) >= 3
             /\ last.text[Len(last.text) - 1] = <<>>
             /\ \E id \in NewKeys \cup {Null} :
                    /\ NewKeys \in {{}, {id}}
                    /\ (id = Null) = (NewKeys = {})
                    /\ last.text[Len(last.text)] =
                           ExpectedFooter(last.result.some.exitCode, NewKeys # {}, id)
             /\ \A i \in 1..(Len(last.text) - 1) : ~OpensFooter(last.text[i])
        ELSE \A i \in 1..Len(last.text) : ~OpensFooter(last.text[i])

\* A result with exit code 0 was archived: the footer has the full-log
\* clause alone.
C11_Witness ==
    /\ IsCommandResponse
    /\ last.result.some.exitCode = 0
    /\ NewKeys = {last.format.logId}
    /\ last.text[Len(last.text)] = <<"[">> \o S_FullLog \o last.format.logId \o S_Quote \o <<"]">>

(***************************************************************************)
(* The error cases of get_log.                                             *)
(***************************************************************************)
\* The step answers a get_log call.
AnswersGetLog == last' # last /\ last'.tool = T_get_log

\* C12: a get_log call for an id the store does not hold, whatever its
\* other arguments, is answered with the two lines "Log not found: <id>"
\* and "Use nix_list_logs to see available logs.", not as an error, and
\* the store and the counter are left as they were.
C12_NotFoundStep ==
    (AnswersGetLog /\ ~MapHas(logStore, last'.args.some.log_id)) =>
        /\ last'.text = NotFoundText(last'.args.some.log_id)
        /\ ~last'.isError
        /\ logStore' = logStore
        /\ logCounter' = logCounter

C12_NotFoundIsNoError == [][C12_NotFoundStep]_vars

\* get_log was asked for an id that was never issued while the store held
\* other entries.
C12_Witness ==
    /\ IsGetLogResponse
    /\ logStore # <<>>
    /\ \A i \in 1..Len(issued) : issued[i] # last.args.some.log_id
    /\ last.text = NotFoundText(last.args.some.log_id)

\* The step answers a get_log call whose grep pattern does not compile.
AnswersBadGrep ==
    /\ AnswersGetLog
    /\ TruthyStr(last'.args.some.grep)
    /\ ~RegExpCompiles(last'.args.some.grep.some)

\* The response of the handler to an Error with the message of the
\* RegExp constructor for pattern.
BadGrepText(pattern) == Concat(Str(S_ErrorPrefix), Str(RegExpError(pattern)))

\* The store, the counter and the pending calls are left as they were.
ServerUntouched == logStore' = logStore /\ logCounter' = logCounter /\ procs' = procs

\* C13 as stated: a get_log call whose grep pattern does not compile is
\* answered as an error with the message of the pattern compiler, and the
\* store and the counter are left as they were.
C13_BadGrepStep ==
    AnswersBadGrep =>
        /\ last'.isError
        /\ last'.text = BadGrepText(last'.args.some.grep.some)
        /\ ServerUntouched

C13_BadGrepIsError == [][C13_BadGrepStep]_vars

\* C13, amended: a get_log call whose grep pattern does not compile is
\* answered as an error with the message of the pattern compiler when the
\* store holds the entry asked for, and with the not-found text, not as an
\* error, when it does not; either way the store, the counter and the
\* pending calls are left as they were, and after an error response the
\* server still answers get_log and list_logs calls.
C13_FoundBadGrepStep ==
    AnswersBadGrep =>
        /\ IF MapHas(logStore, last'.args.some.log_id)
           THEN /\ last'.isError
                /\ last'.text = BadGrepText(last'.args.some.grep.some)
           ELSE /\ ~last'.isError
                /\ last'.text = NotFoundText(last'.args.some.log_id)
        /\ ServerUntouched

C13_FoundBadGrepIsError ==
    /\ []((IsGetLogResponse /\ last.isError) =>
              /\ ENABLED CallListLogs
              /\ ENABLED CallGetLog(LogArgs(last.args.some.log_id, None, None, None)))
    /\ [][C13_FoundBadGrepStep]_vars

\* A get_log call on an entry of the store was answered as an error.
C13_Witness ==
    /\ IsGetLogResponse
    /\ MapHas(logStore, last.args.some.log_id)
    /\ last.isError
    /\ last.text = BadGrepText(last.args.some.grep.some)

(***************************************************************************)
(* execNix when the child cannot be spawned.                               *)
(***************************************************************************)
\* What execNix resolves with when the child's error event carries message.
SpawnFailure(message) == [stdout |-> EmptyStr, stderr |-> message, exitCode |-> 1]

\* C14: the error event of a child resolves the call with exit code 1,
\* empty stdout and the error message as stderr, and the call is answered
\* with that result as a normal response (the promise is not rejected);
\* the close event that follows changes neither that response nor the
\* store, the counter or the number of commands completed: the call is
\* resolved once.
C14_SpawnErrorStep ==
    \A s \in Slots :
        /\ (procs[s].pc = "running" /\ procs'[s].pc = "failed") =>
               /\ last'.result = Some(SpawnFailure(Str(S_SpawnError)))
               /\ last'.tool = procs[s].name
               /\ ~last'.isError
               /\ last'.text = <<S_SpawnError, <<>>, <<"[">> \o S_ExitCode \o <<"1", "]">> >>
               /\ execs' = execs + 1
        /\ (procs[s].pc = "failed" /\ procs'[s].pc # "failed") =>
               /\ procs'[s] = Idle
               /\ last' = last
               /\ logStore' = logStore /\ logCounter' = logCounter
               /\ execs' = execs

C14_ResolvesOnce == [][C14_SpawnErrorStep]_vars

\* The close event has followed the error event of every child that could
\* not be spawned, and the last response is still that of the error.
C14_Witness ==
    /\ IsCommandResponse
    /\ last.result.some = SpawnFailure(Str(S_SpawnError))
    /\ execs >= 1
    /\ \A s \in Slots : procs[s].pc = "idle"

(***************************************************************************)
(* Requests in flight.                                                     *)
(***************************************************************************)
\* C15: whether or not the child of the first slot ever exits, a command
\* call in another slot, whose child exits, gets its response; and while
\* command calls are pending the server answers list_logs and get_log
\* calls.
C15_OthersAnswered ==
    /\ \A s \in Slots \ {1} : (procs[s].pc = "running") ~> (procs[s].pc # "running")
    /\ []((Running # {} /\ fill = 0) =>
              /\ ENABLED CallListLogs
              /\ ENABLED CallGetLog(LogArgs(LogId(logCounter), None, None, None)))

\* A command call was answered while the call of the first slot was
\* waiting for its child, which is still running.
C15_Witness ==
    /\ 1 \in last.pending
    /\ procs[1].pc = "running"
    /\ IsCommandResponse

(***************************************************************************)
(* The list of the archived logs.                                          *)
(***************************************************************************)
\* The step answers a list_logs call.
AnswersListLogs == last' # last /\ last'.tool = T_list_logs

\* The n entries archived last of those the store holds, the one archived
\* last first.  The store keeps its entries in the order they were
\* archived in.
MostRecent(m, n) == [i \in 1..Min(n, Len(m)) |-> m[Len(m) + 1 - i].value]

\* C16: list_logs answers "No logs available." exactly when the store is
\* empty, and otherwise lists the 20 entries archived last (all of them
\* when there are fewer), the one archived last first.
C16_ListStep ==
    AnswersListLogs =>
        /\ (last'.text = Str(S_NoLogs)) <=> (logStore = <<>>)
        /\ logStore # <<>> => last'.text = ListLines(MostRecent(logStore, 20))

C16_ListsMostRecent == [][C16_ListStep]_vars

\* The timestamps of the entries of the store, in the order of the store.
Stamps(m) == [i \in 1..Len(m) |-> m[i].value.timestamp]

\* What holds of every list_logs response: the fixed message exactly when
\* the store is empty; at most 20 lines; and the 20 entries archived last,
\* the latest first, when no two entries of the store were archived in the
\* same millisecond.
C16_ListStepByStamp ==
    AnswersListLogs =>
        /\ (last'.text = Str(S_NoLogs)) <=> (logStore = <<>>)
        /\ Len(last'.text) <= 20
        /\ (/\ logStore # <<>>
            /\ \A i, j \in 1..Len(logStore) :
                   i # j => Stamps(logStore)[i] # Stamps(logStore)[j])
               => last'.text = ListLines(MostRecent(logStore, 20))

C16_ListsByStamp == [][C16_ListStepByStamp]_vars

(***************************************************************************)
(* The noise filter of stderr.                                             *)
(***************************************************************************)
\* Line k of the filter's output stands for the line of its input: they
\* are equal, but for the white space trim() removed at the two ends of
\* the output.
SameLine(out, k, line) ==
    IF k \in {1, Len(out)} THEN Trim(<<out[k]>>) = Trim(<<line>>) ELSE out[k] = line

\* The lines of out from the k-th on are lines of inp from the j-th on, in
\* the order they have in inp.
RECURSIVE InOrder(_, _, _, _)
InOrder(out, k, inp, j) ==
    IF k > Len(out) THEN TRUE
    ELSE IF j > Len(inp) THEN FALSE
    ELSE IF SameLine(out, k, inp[j]) THEN InOrder(out, k + 1, inp, j + 1)
    ELSE InOrder(out, k, inp, j + 1)

\* The filter keeps the order of the lines of stderr.
KeepsOrder(stderr) ==
    Truthy(FilteredStderr(stderr)) => InOrder(FilteredStderr(stderr), 1, stderr, 1)

\* Filtering the filter's output gives that output again.
Idempotent(stderr) ==
    FilteredStderr(FilteredStderr(stderr)) = FilteredStderr(stderr)

\* The filter's output begins with "copying path": its first line is one
\* the filter drops.
CopyingFirst(stderr) == StartsWith(FilteredStderr(stderr)[1], S_copyingPath)

\* The three, worked out once for each result of the model.
FilterFacts(result) ==
    [order |-> KeepsOrder(result.stderr),
     idempotent |-> Idempotent(result.stderr),
     copyingFirst |-> CopyingFirst(result.stderr),
     kept |-> Len(FilteredStderr(result.stderr))]

FactsTable == [result \in ModelResults |-> FilterFacts(result)]

Facts(result) ==
    IF result \in ModelResults THEN FactsTable[result] ELSE FilterFacts(result)

\* C17 as stated: the noise filter applied to its own output returns that
\* output, and the lines it keeps are in the order they had in stderr.
C17_IdempotentInOrder ==
    IsCommandResponse =>
        /\ Facts(last.result.some).idempotent
        /\ Facts(last.result.some).order

\* C17: the lines the noise filter keeps are in the order they had in
\* stderr, and the filter applied to its own output returns that output
\* exactly when the output does not begin with "copying path".
C17_IdempotentUnlessCopyingFirst ==
    IsCommandResponse =>
        /\ Facts(last.result.some).order
        /\ Facts(last.result.some).idempotent <=> ~Facts(last.result.some).copyingFirst

\* The filter dropped lines of the stderr of a command and kept at least
\* two.
C17_Witness ==
    /\ IsCommandResponse
    /\ DropsNoise(last.result.some)
    /\ Facts(last.result.some).kept >= 2

(***************************************************************************)
(* The life of an archived entry.                                          *)
(***************************************************************************)
\* The step archives a result: the id counter advances.
Archives == logCounter' # logCounter

\* The entry storeLog makes of the response of the step.
ArchivedEntry ==
    [id        |-> LogId(logCounter'),
     command   |-> CommandOf(last'.tool),
     timestamp |-> IsoString(now),
     stdout    |-> last'.result.some.stdout,
     stderr    |-> last'.result.some.stderr,
     exitCode  |-> last'.result.some.exitCode]

\* The step is one in which storeLog evicts: it archives into a store of
\* MAX_LOGS entries.
Evicts == Archives /\ MapSize(logStore) = MAX_LOGS

\* The step answers a get_log call without grep, head or tail for an id
\* the store holds.
AnswersFullLog ==
    /\ AnswersGetLog
    /\ MapHas(logStore, last'.args.some.log_id)
    /\ last'.args.some.grep = None
    /\ last'.args.some.head = None
    /\ last'.args.some.tail = None

\* C18: an archived entry is the result as the child left it; every step
\* leaves each entry of the store as it was or, when it archives into a
\* full store, removes it; and get_log without grep, head or tail shows
\* the header of the entry and then its stdout, a line break and its
\* stderr.
C18_EntryStep ==
    /\ Archives => MapGet(logStore', LogId(logCounter')) = ArchivedEntry
    /\ \A i \in 1..Len(logStore) :
           \/ MapGet(logStore', logStore[i].key) = logStore[i].value
           \/ Evicts /\ ~MapHas(logStore', logStore[i].key)
    /\ AnswersFullLog =>
           /\ logStore' = logStore
           /\ last'.text = GetLogHeader(MapGet(logStore, last'.args.some.log_id))
                           \o MapGet(logStore, last'.args.some.log_id).stdout
                           \o MapGet(logStore, last'.args.some.log_id).stderr

C18_EntriesNeverChange == [][C18_EntryStep]_vars

\* get_log showed in full an entry that was archived before the entry
\* archived last, at an earlier time.
C18_Witness ==
    /\ GetLogFound
    /\ last.args.some.grep = None /\ last.args.some.head = None /\ last.args.some.tail = None
    /\ last.args.some.log_id # LogId(logCounter)
    /\ AskedEntry.timestamp # IsoString(now)
    /\ last.text = GetLogHeader(AskedEntry) \o AskedEntry.stdout \o AskedEntry.stderr

(***************************************************************************)
(* The tool names the responses tell the caller to use.                    *)
(***************************************************************************)
S_FullLogUse == <<"F", "u", "l", "l", " ", "l", "o", "g", ":", " ", "u", "s", "e", " ">>
S_Use == <<"U", "s", "e", " ">>

\* The word of line that begins at position i: the characters up to the
\* next space or the end of the line.
WordAt(line, i) ==
    SubSeq(line, i,
           (CHOOSE j \in i..(Len(line) + 1) :
                /\ j > Len(line) \/ line[j] = " "
                /\ \A k \in i..(j - 1) : line[k] # " ") - 1)

\* The word that follows the first occurrence of lead in line.
WordAfter(line, lead) ==
    WordAt(line, Len(lead) + 1 +
                 (CHOOSE i \in 0..(Len(line) - Len(lead)) :
                      /\ \A j \in 1..Len(lead) : line[i + j] = lead[j]
                      /\ \A h \in 0..(i - 1) :
                             \E j \in 1..Len(lead) : line[h + j] # lead[j]))

\* The tool name the last response tells the caller to use: the one after
\* "Full log: use" in the footer of a command response, the one after
\* "Use" in the second line of a not-found response of get_log; Null when
\* the response names none.
ToldTool ==
    IF IsCommandResponse /\ Includes(last.text[Len(last.text)], S_FullLogUse)
    THEN WordAfter(last.text[Len(last.text)], S_FullLogUse)
    ELSE IF /\ IsGetLogResponse
            /\ last.text = NotFoundText(last.args.some.log_id)
    THEN WordAfter(last.text[2], S_Use)
    ELSE Null

\* C19: a call of the tool that the response before it told the caller to
\* use is a call of a tool that handleTool has a case for, and it is not
\* answered with the error "Unknown tool".
C19_ToldStep ==
    (last' # last /\ ToldTool # Null /\ last'.tool = ToldTool) =>
        /\ last'.tool \in KnownTools
        /\ last'.text # ToolResponse(UnknownTool(last'.tool)).text

C19_ToldToolsAreKnown == [][C19_ToldStep]_vars

(***************************************************************************)
(* The ids of the store and the id counter.                                *)
(***************************************************************************)
\* C20: when n executions have been archived, the id counter is n and the
\* store holds min(n, MAX_LOGS) entries whose keys are, in the order of
\* the store, log-(n - size + 1) to log-n, each entry carrying its key as
\* its id.
C20_KeysAreLatestIds ==
    /\ logCounter = Len(issued)
    /\ MapSize(logStore) = Min(Len(issued), MAX_LOGS)
    /\ \A i \in 1..Len(logStore) :
           /\ logStore[i].key = LogId(Len(issued) - MapSize(logStore) + i)
           /\ logStore[i].value.id = logStore[i].key

\* More than MAX_LOGS executions have been archived, and the last command
\* answered was not.
C20_Witness ==
    /\ Len(issued) > MAX_LOGS
    /\ IsCommandResponse
    /\ ~last.format.needsLog

=============================================================================
